---- MODULE Spec2Model ----
(***************************************************************************)
(* A model of jira_scraper.py: the orchestrator (main) as a state machine  *)
(* over the cookie store, the browser context, the requests issued and the *)
(* artifacts written, and its pure helpers (find_transition_by_status,     *)
(* build_jql_query, format_ticket, sanitize_folder_name, the JSON          *)
(* extraction) as operators computed the way the code computes them.       *)
(*                                                                         *)
(* Python strings whose characters matter (status names, folder names,     *)
(* rendered page content) are sequences of one-character strings; Str      *)
(* turns such a sequence into a TLA+ string where it is only embedded in   *)
(* a larger text.  JSON values are tagged records: Null, JStr(s), JObj(f), *)
(* JList(q), JNum(n).                                                      *)
(***************************************************************************)
EXTENDS Integers, Sequences, FiniteSets, TLC

VARIABLES
    call,          \* the helper applied last, with its arguments and result
    pc,            \* position of main() in the current run
    args,          \* parsed command line of the current run
    cookieStore,   \* content of COOKIES_FILE ({} when the file is absent)
    jar,           \* cookies of the browser context of the current run
    authed,        \* whether the server takes the session as authenticated
    log,           \* external steps of the current run, in order
    data,          \* fetch mode: what fetch_tickets_via_api returned
    discovered,    \* change mode: what get_transitions returned
    matched,       \* change mode: what find_transition_by_status returned
    success,       \* change mode: what change_ticket_status returned
    tickets,       \* fetch mode: normalized tickets still to be written
    saved,         \* fetch mode: tickets written in this run, with their paths
    artifacts,     \* files under OUTPUT_DIR: path -> content
    reported,      \* failures printed in the current run
    outcome,       \* how the run ended
    goodCookies,   \* history: the jar captured by the last run whose API
                   \* operation succeeded
    runs           \* number of runs started

runVars == <<pc, args, jar, authed, log, data, discovered, matched, success,
             tickets, saved, reported, outcome, runs>>
mainVars == <<runVars, cookieStore, artifacts, goodCookies>>
vars == <<call, mainVars>>

(***************************************************************************)
(* Strings                                                                 *)
(***************************************************************************)
RECURSIVE Str(_)
Str(s) == IF s = <<>> THEN "" ELSE s[1] \o Str(Tail(s))

\* All sequences over alphabet A of length at most n.
RECURSIVE SeqsUpTo(_, _)
SeqsUpTo(A, n) ==
    IF n = 0 THEN {<<>>}
    ELSE LET shorter == SeqsUpTo(A, n - 1)
         IN  shorter \cup {Append(s, c) : s \in {t \in shorter : Len(t) = n - 1}, c \in A}

UpperCase == {"A", "D", "I", "N", "O", "P", "R", "U"}
LowerCase == {"a", "d", "e", "g", "i", "k", "n", "o", "p", "r", "s", "u", "v", "w"}
Digits == {"1"}

\* str.lower() on one character
LowerChar(c) ==
    CASE c = "A" -> "a"
      [] c = "D" -> "d"
      [] c = "I" -> "i"
      [] c = "N" -> "n"
      [] c = "O" -> "o"
      [] c = "P" -> "p"
      [] c = "R" -> "r"
      [] c = "U" -> "u"
      [] OTHER -> c

\* str.lower()
Lower(s) == [i \in 1..Len(s) |-> LowerChar(s[i])]

\* \w of Python's re on str: letters, digits and the underscore
IsWordChar(c) == c \in UpperCase \cup LowerCase \cup Digits \cup {"_"}

(***************************************************************************)
(* sanitize_folder_name                                                    *)
(***************************************************************************)
\* re.sub(r'[^\w\-]', '_', s)
ReplaceNonWord(s) ==
    [i \in 1..Len(s) |-> IF IsWordChar(s[i]) \/ s[i] = "-" THEN s[i] ELSE "_"]

\* re.sub(r'_+', '_', s)
RECURSIVE CollapseUnderscores(_)
CollapseUnderscores(s) ==
    IF Len(s) < 2 THEN s
    ELSE IF s[1] = "_" /\ s[2] = "_" THEN CollapseUnderscores(Tail(s))
    ELSE <<s[1]>> \o CollapseUnderscores(Tail(s))

RECURSIVE LStrip(_, _)
LStrip(s, c) == IF s # <<>> /\ s[1] = c THEN LStrip(Tail(s), c) ELSE s

RECURSIVE RStrip(_, _)
RStrip(s, c) ==
    IF s # <<>> /\ s[Len(s)] = c THEN RStrip(SubSeq(s, 1, Len(s) - 1), c) ELSE s

\* str.strip(c)
Strip(s, c) == RStrip(LStrip(s, c), c)

UNKNOWN_FOLDER == <<"U", "n", "k", "n", "o", "w", "n">>

sanitize_folder_name(name) ==
    IF name = <<>> THEN UNKNOWN_FOLDER
    ELSE Strip(CollapseUnderscores(ReplaceNonWord(Lower(name))), "_")

(***************************************************************************)
(* Optional values (None or a value) and dictionaries                      *)
(***************************************************************************)
None == <<>>
Some(v) == <<v>>

\* dict.get(k, default)
DictGet(d, k, default) == IF k \in DOMAIN d THEN d[k] ELSE default

EmptyDict == <<>>

(***************************************************************************)
(* build_jql_query                                                         *)
(***************************************************************************)
\* sep.join(parts)
RECURSIVE Join(_, _)
Join(sep, parts) ==
    IF parts = <<>> THEN ""
    ELSE IF Len(parts) = 1 THEN parts[1]
    ELSE parts[1] \o sep \o Join(sep, Tail(parts))

\* `if status:` -- None and the empty string are both falsy
Truthy(status) == status # None /\ status[1] # <<>>

JoinAllWithAnd(query_parts) == Join(" AND ", query_parts)

\* " AND ".join(query_parts[:-1]) + " " + query_parts[-1]
JoinQueryParts(query_parts) ==
    Join(" AND ", SubSeq(query_parts, 1, Len(query_parts) - 1))
        \o " " \o query_parts[Len(query_parts)]

build_jql_query(status) ==
    LET p1 == <<"assignee = currentUser()">>
        p2 == IF Truthy(status)
              THEN Append(p1, "status = '" \o Str(status[1]) \o "'")
              ELSE p1
        query_parts == Append(p2, "ORDER BY updated DESC")
    IN  JoinQueryParts(query_parts)

(***************************************************************************)
(* find_transition_by_status                                               *)
(***************************************************************************)
\* transition.get("to", {}).get("name", default)
ToStatusName(transition, default) ==
    DictGet(DictGet(transition, "to", EmptyDict), "name", default)

MatchesCaseSensitive(transition, target_status) ==
    ToStatusName(transition, <<>>) = target_status

\* to_status.lower() == target_lower
Matches(transition, target_status) ==
    Lower(ToStatusName(transition, <<>>)) = Lower(target_status)


find_first_transition(transitions, target_status) ==
    IF transitions = <<>> THEN None ELSE Some(transitions[1])

\* the for loop: the first transition that matches is returned
RECURSIVE find_transition_by_status(_, _)
find_transition_by_status(transitions, target_status) ==
    IF transitions = <<>> THEN None
    ELSE IF Matches(transitions[1], target_status) THEN Some(transitions[1])
    ELSE find_transition_by_status(Tail(transitions), target_status)

(***************************************************************************)
(* JSON values as Python sees them after json.loads                        *)
(***************************************************************************)
Null == [t |-> "null"]
JStr(s) == [t |-> "str", v |-> s]
JNum(n) == [t |-> "num", v |-> n]
JObj(f) == [t |-> "obj", v |-> f]
JList(q) == [t |-> "list", v |-> q]

\* bool(v): None, "", 0, {} and [] are falsy
PyTruthy(v) ==
    CASE v.t = "null" -> FALSE
      [] v.t = "str" -> Len(v.v) # 0
      [] v.t = "num" -> v.v # 0
      [] v.t = "obj" -> DOMAIN v.v # {}
      [] v.t = "list" -> Len(v.v) # 0

(***************************************************************************)
(* format_ticket                                                           *)
(***************************************************************************)
JIRA_BASE_URL == "https://jira.tools.sap"

Fault(what) == [fault |-> what]
IsFault(r) == "fault" \in DOMAIN r

\* fields.get(part, {}).get(attr, sentinel) if fields.get(part) else sentinel
SubField(fields, part, attr, sentinel) ==
    IF PyTruthy(DictGet(fields, part, Null))
    THEN DictGet(DictGet(fields, part, JObj(EmptyDict)).v, attr, JStr(sentinel))
    ELSE JStr(sentinel)

\* v or sentinel
OrElse(v, sentinel) == IF PyTruthy(v) THEN v ELSE JStr(sentinel)

\* ", ".join(labels) raises TypeError unless labels is a list of strings
LabelsJoinable(labels) ==
    labels.t = "list" /\ \A i \in 1..Len(labels.v) : labels.v[i].t = "str"

LabelsText(labels) == Join(", ", [i \in 1..Len(labels.v) |-> labels.v[i].v])

format_ticket(issue) ==
    LET fieldsVal == DictGet(issue, "fields", JObj(EmptyDict))
        key == DictGet(issue, "key", JStr("N/A"))
    IN  IF fieldsVal.t # "obj" THEN Fault("AttributeError")
        ELSE LET fields == fieldsVal.v
                 labels == DictGet(fields, "labels", JList(<<>>))
             IN  IF ~LabelsJoinable(labels) THEN Fault("TypeError")
                 ELSE [key |-> key,
                       summary |-> DictGet(fields, "summary", JStr("N/A")),
                       status |-> SubField(fields, "status", "name", <<>>),
                       priority |-> SubField(fields, "priority", "name", "N/A"),
                       assignee |-> SubField(fields, "assignee", "displayName", "Unassigned"),
                       reporter |-> SubField(fields, "reporter", "displayName", "N/A"),
                       labels |-> OrElse(JStr(LabelsText(labels)), "None"),
                       created |-> DictGet(fields, "created", JStr("N/A")),
                       updated |-> DictGet(fields, "updated", JStr("N/A")),
                       description |-> OrElse(DictGet(fields, "description",
                                                      JStr("No description provided")),
                                              "No description provided"),
                       url |-> JStr(JIRA_BASE_URL \o "/browse/" \o key.v)]

(***************************************************************************)
(* Extraction of the JSON text from rendered page content                  *)
(***************************************************************************)
IsAt(s, i, pat) ==
    i >= 1 /\ i + Len(pat) - 1 <= Len(s) /\ SubSeq(s, i, i + Len(pat) - 1) = pat

\* index of the first occurrence of pat in s at or after from, 0 when there is none
RECURSIVE Find(_, _, _)
Find(s, pat, from) ==
    IF from + Len(pat) - 1 > Len(s) THEN 0
    ELSE IF IsAt(s, from, pat) THEN from
    ELSE Find(s, pat, from + 1)

\* str.replace(old, new): leftmost, non-overlapping occurrences
RECURSIVE Replace(_, _, _)
Replace(s, old, new) ==
    LET i == Find(s, old, 1)
    IN  IF i = 0 THEN s
        ELSE SubSeq(s, 1, i - 1) \o new
                 \o Replace(SubSeq(s, i + Len(old), Len(s)), old, new)

AMP == <<"&">>
LT == <<"<">>
GT == <<">">>
QUOT == <<"\"">>
ENT_AMP == <<"&", "a", "m", "p", ";">>
ENT_LT == <<"&", "l", "t", ";">>
ENT_GT == <<"&", "g", "t", ";">>
ENT_QUOT == <<"&", "q", "u", "o", "t", ";">>

\* .replace('&lt;', '<').replace('&gt;', '>').replace('&amp;', '&').replace('&quot;', '"')
DecodeEntities(s) ==
    Replace(Replace(Replace(Replace(s, ENT_LT, LT), ENT_GT, GT), ENT_AMP, AMP),
            ENT_QUOT, QUOT)

\* re.search(open + r'[^>]*>(.*?)' + close, content, re.DOTALL): group 1, or None.
\* [^>]* stops at the first ">" after the opening name and .*? at the first
\* closing tag after that; a later start cannot match where the first cannot.
TagGroup(content, open, close) ==
    LET i == Find(content, open, 1)
        j == IF i = 0 THEN 0 ELSE Find(content, GT, i + Len(open))
        k == IF j = 0 THEN 0 ELSE Find(content, close, j + 1)
    IN  IF k = 0 THEN None ELSE Some(SubSeq(content, j + 1, k - 1))

PRE_OPEN == <<"<", "p", "r", "e">>
PRE_CLOSE == <<"<", "/", "p", "r", "e", ">">>
BODY_OPEN == <<"<", "b", "o", "d", "y">>
BODY_CLOSE == <<"<", "/", "b", "o", "d", "y", ">">>

Whitespace == {" ", "\n", "\t"}

RECURSIVE LStripWs(_)
LStripWs(s) == IF s # <<>> /\ s[1] \in Whitespace THEN LStripWs(Tail(s)) ELSE s

RECURSIVE RStripWs(_)
RStripWs(s) ==
    IF s # <<>> /\ s[Len(s)] \in Whitespace
    THEN RStripWs(SubSeq(s, 1, Len(s) - 1)) ELSE s

\* str.strip()
StripWs(s) == RStripWs(LStripWs(s))

\* re.sub(r'<[^>]+>', '', s): a "<", at least one character other than ">",
\* then the first ">"
RECURSIVE StripTags(_)
StripTags(s) ==
    IF s = <<>> THEN <<>>
    ELSE LET j == Find(s, GT, 2)
         IN  IF s[1] = "<" /\ j > 2
             THEN StripTags(SubSeq(s, j + 1, Len(s)))
             ELSE <<s[1]>> \o StripTags(Tail(s))


fetch_json_text_body_first(content) ==
    LET json_match == TagGroup(content, PRE_OPEN, PRE_CLOSE)
        body_match == TagGroup(content, BODY_OPEN, BODY_CLOSE)
    IN  IF body_match # None
        THEN DecodeEntities(StripTags(StripWs(body_match[1])))
        ELSE IF json_match # None THEN DecodeEntities(json_match[1])
             ELSE content

\* fetch_tickets_via_api, lines 335-350: the text handed to json.loads
fetch_json_text(content) ==
    LET json_match == TagGroup(content, PRE_OPEN, PRE_CLOSE)
        body_match == TagGroup(content, BODY_OPEN, BODY_CLOSE)
    IN  IF json_match # None THEN DecodeEntities(json_match[1])
        ELSE IF body_match # None
             THEN DecodeEntities(StripTags(StripWs(body_match[1])))
             ELSE content


transitions_json_text_keeps_tags(content) ==
    LET json_match == TagGroup(content, PRE_OPEN, PRE_CLOSE)
    IN  IF json_match # None
        THEN DecodeEntities(json_match[1])
        ELSE LET body_match == TagGroup(content, BODY_OPEN, BODY_CLOSE)
             IN  IF body_match # None
                 THEN DecodeEntities(StripWs(body_match[1]))
                 ELSE content

\* get_transitions, lines 143-155: the text handed to json.loads
transitions_json_text(content) ==
    LET json_match == TagGroup(content, PRE_OPEN, PRE_CLOSE)
    IN  IF json_match # None
        THEN DecodeEntities(json_match[1])
        ELSE LET body_match == TagGroup(content, BODY_OPEN, BODY_CLOSE)
             IN  IF body_match # None
                 THEN DecodeEntities(StripTags(StripWs(body_match[1])))
                 ELSE content

(***************************************************************************)
(* json.dumps and json.loads, on documents that are one JSON string        *)
(***************************************************************************)
BACKSLASH == <<"\\">>

\* json.dumps(s) for a str s: quotes around it, '"' and '\' escaped
RECURSIVE JsonEscape(_)
JsonEscape(s) ==
    IF s = <<>> THEN <<>>
    ELSE (IF s[1] \in {"\"", "\\"} THEN BACKSLASH ELSE <<>>)
             \o <<s[1]>> \o JsonEscape(Tail(s))

json_dumps(s) == QUOT \o JsonEscape(s) \o QUOT

\* the characters of a JSON string body up to its closing quote, unescaped;
\* None when the text ends first or an escape is not one of \" and \\
RECURSIVE JsonStringBody(_, _)
JsonStringBody(text, acc) ==
    IF text = <<>> THEN None
    ELSE IF text[1] = "\"" THEN (IF Len(text) = 1 THEN Some(acc) ELSE None)
    ELSE IF text[1] = "\\"
         THEN IF Len(text) >= 2 /\ text[2] \in {"\"", "\\"}
              THEN JsonStringBody(SubSeq(text, 3, Len(text)), Append(acc, text[2]))
              ELSE None
    ELSE JsonStringBody(Tail(text), Append(acc, text[1]))

\* json.loads(text): Some(value), or None for JSONDecodeError
json_loads(text) ==
    IF text # <<>> /\ text[1] = "\"" THEN JsonStringBody(Tail(text), <<>>) ELSE None

(***************************************************************************)
(* save_ticket_description                                                 *)
(***************************************************************************)
OUTPUT_DIR == "output"

\* str(v) inside an f-string
PyStr(v) == IF v.t = "null" THEN "None" ELSE v.v

\* OUTPUT_DIR / status_folder / f"{key}.txt": pathlib drops an empty segment
TicketPath(status_folder, key) ==
    IF status_folder = <<>> THEN OUTPUT_DIR \o "/" \o key \o ".txt"
    ELSE OUTPUT_DIR \o "/" \o Str(status_folder) \o "/" \o key \o ".txt"

\* the f-string of lines 416-429, as its lines
TicketContent(ticket) ==
    << "Ticket: " \o PyStr(ticket.key),
       "Summary: " \o PyStr(ticket.summary),
       "URL: " \o PyStr(ticket.url),
       "Status: " \o Str(ticket.status.v),
       "Priority: " \o PyStr(ticket.priority),
       "Assignee: " \o PyStr(ticket.assignee),
       "Reporter: " \o PyStr(ticket.reporter),
       "Labels: " \o PyStr(ticket.labels),
       "Created: " \o PyStr(ticket.created),
       "Updated: " \o PyStr(ticket.updated),
       "",
       "Description:",
       PyStr(ticket.description) >>

\* the path save_ticket_description writes and returns
save_ticket_description(ticket) ==
    TicketPath(sanitize_folder_name(ticket.status.v), PyStr(ticket.key))

(***************************************************************************)
(* change_ticket_status, after get_transitions returned a list             *)
(***************************************************************************)
AvailableTransitionNames(transitions) ==
    Join(", ", [i \in 1..Len(transitions) |-> transitions[i].name])

\* ', '.join(t.get('to', {}).get('name', '') for t in transitions)
AvailableTargets(transitions) ==
    Join(", ", [i \in 1..Len(transitions) |-> Str(ToStatusName(transitions[i], <<>>))])

NoTransitionsAvailable(issue_key) ==
    [kind |-> "NoTransitionsAvailable", key |-> issue_key]

NoMatchingTransition(transitions, target_status) ==
    [kind |-> "NoMatchingTransition", target |-> target_status,
     available |-> AvailableTargets(transitions)]

MatchWithoutEmptyCheck(issue_key, transitions, target_status) ==
    LET found == find_transition_by_status(transitions, target_status)
    IN  IF found = None
        THEN [matched |-> None, success |-> Some(FALSE),
              report |-> <<NoMatchingTransition(transitions, target_status)>>]
        ELSE [matched |-> found, success |-> None, report |-> <<>>]

\* lines 260-279: what change_ticket_status does with the discovered list
MatchDiscovered(issue_key, transitions, target_status) ==
    IF transitions = <<>>
    THEN [matched |-> None, success |-> Some(FALSE),
          report |-> <<NoTransitionsAvailable(issue_key)>>]
    ELSE LET found == find_transition_by_status(transitions, target_status)
         IN  IF found = None
             THEN [matched |-> None, success |-> Some(FALSE),
                   report |-> <<NoMatchingTransition(transitions, target_status)>>]
             ELSE [matched |-> found, success |-> None, report |-> <<>>]

(***************************************************************************)
(* Bounds and the inputs the environment can supply                        *)
(***************************************************************************)
MaxRuns == 2
MaxDiscovered == 2
MaxIssues == 2

OPEN == <<"O", "p", "e", "n">>
DONE == <<"D", "o", "n", "e">>
DONE_LOWER == <<"d", "o", "n", "e">>
IN_PROGRESS == <<"I", "n", " ", "P", "r", "o", "g", "r", "e", "s", "s">>

\* a transition record of the transitions endpoint; dest is None when the
\* record carries no "to"
MkTransition(i, dest) ==
    IF dest = None THEN [id |-> i, name |-> "step"]
    ELSE [id |-> i, name |-> "step", to |-> [name |-> dest[1]]]

MkTransitions(dests) == [i \in 1..Len(dests) |-> MkTransition(i, dests[i])]

DestNames == {Some(OPEN), Some(DONE), Some(IN_PROGRESS)}
DiscoveredLists == {MkTransitions(d) : d \in SeqsUpTo(DestNames, MaxDiscovered)}
TargetStatuses == {DONE_LOWER, IN_PROGRESS}
StatusFilters == {None, Some(OPEN)}
IssueKeys == {"ABC-1"}

\* raw issue records of the search endpoint
IssueNoStatus ==
    [key |-> JStr("ABC-1"), fields |-> JObj([summary |-> JStr("first")])]
IssueNullStatus ==
    [key |-> JStr("ABC-1"),
     fields |-> JObj([summary |-> JStr("first"), status |-> Null, description |-> Null])]
IssueOpen ==
    [key |-> JStr("ABC-2"),
     fields |-> JObj([summary |-> JStr("second"), status |-> JObj([name |-> JStr(OPEN)]),
                      labels |-> JList(<<JStr("x"), JStr("y")>>),
                      description |-> JStr("text")])]
IssueNullLabels ==
    [key |-> JStr("ABC-3"), fields |-> JObj([summary |-> JStr("third"), labels |-> Null])]
IssuePool == {IssueNoStatus, IssueNullStatus, IssueOpen, IssueNullLabels}

\* what a page holds once the JSON text is isolated and parsed: Some(value),
\* or None when json.loads raises JSONDecodeError
SearchBodies ==
    {None, Some(JObj(EmptyDict)), Some(JObj([errorMessages |-> JList(<<>>)])),
     Some(JList(<<>>)), Some(JNum(5))}
        \cup {Some(JObj([issues |-> JList(l)])) : l \in SeqsUpTo(IssuePool, MaxIssues)}

TransitionBodies ==
    {None, Some(JObj(EmptyDict)), Some(JList(<<>>))}
        \cup {Some(JObj([transitions |-> JList(l)])) : l \in DiscoveredLists}

\* the API answers 401 to a session it does not take as authenticated
ApiStatuses(isAuthed) == IF isAuthed THEN {200, 500} ELSE {401}

\* what fetch() meets in the page: an HTTP response, or a network-level exception
PostResponses ==
    {[status |-> 200, statusText |-> "OK"],
     [status |-> 204, statusText |-> "No Content"],
     [status |-> 400, statusText |-> "Bad Request"],
     [status |-> 500, statusText |-> "Server Error"],
     [exception |-> "Failed to fetch"]}

\* Response.ok: the status is in the range 200-299
ResponseOk(status) == status >= 200 /\ status <= 299

\* lines 206-227: the object the script returns to page.evaluate
EvaluateResult(response) ==
    IF "exception" \in DOMAIN response
    THEN [ok |-> FALSE, error |-> response.exception]
    ELSE [ok |-> ResponseOk(response.status), status |-> response.status,
          statusText |-> response.statusText]

\* the answers to the state-changing request, as page.evaluate returns them
PostResults == {EvaluateResult(r) : r \in PostResponses}

ANON == <<"anon", 0>>
SessionCookie(run) == <<"sid", run>>
HasSession(cookies) == \E c \in cookies : c[1] = "sid"

ArgSets ==
    [mode : {"fetch"}, login : BOOLEAN, status : StatusFilters,
     change_status : {None}, to_status : {None}]
        \cup [mode : {"change"}, login : BOOLEAN, status : StatusFilters,
              change_status : {Some(k) : k \in IssueKeys},
              to_status : {Some(t) : t \in TargetStatuses}]

NoArgs == [mode |-> "none"]
NoOutcome == [kind |-> "none"]
NoCall == [fn |-> "none"]

(***************************************************************************)
(* main(): one run of the program after another                            *)
(***************************************************************************)
Logged(entry) == log' = Append(log, entry)

MainInit ==
    /\ pc = "idle"
    /\ args = NoArgs
    /\ cookieStore = {}
    /\ jar = {}
    /\ authed = FALSE
    /\ log = <<>>
    /\ data = None
    /\ discovered = None
    /\ matched = None
    /\ success = None
    /\ tickets = <<>>
    /\ saved = <<>>
    /\ artifacts = <<>>
    /\ reported = <<>>
    /\ outcome = NoOutcome
    /\ goodCookies = {}
    /\ runs = 0

Init == call = NoCall /\ MainInit

\* lines 489-503: the arguments are parsed and a fresh browser context is made
Start ==
    /\ pc \in {"idle", "done"}
    /\ runs < MaxRuns
    /\ args' \in ArgSets
    /\ runs' = runs + 1
    /\ pc' = "restore"
    /\ jar' = {}
    /\ authed' = FALSE
    /\ log' = <<>>
    /\ data' = None
    /\ discovered' = None
    /\ matched' = None
    /\ success' = None
    /\ tickets' = <<>>
    /\ saved' = <<>>
    /\ reported' = <<>>
    /\ outcome' = NoOutcome
    /\ UNCHANGED <<call, cookieStore, artifacts, goodCookies>>

RestoreDespiteLogin(login, cookies) == cookies # {}

\* lines 505-507: if not args.login, and the stored cookies are not empty
ShouldRestore(login, cookies) == ~login /\ cookies # {}

\* lines 505-509: load_cookies and context.add_cookies, skipped with --login
RestoreCookies ==
    /\ pc = "restore"
    /\ IF ShouldRestore(args.login, cookieStore)
       THEN jar' = cookieStore /\ Logged([op |-> "restore"])
       ELSE UNCHANGED <<jar, log>>
    /\ pc' = "probe"
    /\ UNCHANGED <<call, args, authed, data, discovered, matched, success, tickets,
                   saved, reported, outcome, runs, cookieStore, artifacts, goodCookies>>

\* lines 511-516: the root page is opened; a session the server does not take
\* is redirected to the login page and handed an anonymous cookie
Probe ==
    /\ pc = "probe"
    /\ Logged([op |-> "probe"])
    /\ \E ok \in (IF HasSession(jar) THEN BOOLEAN ELSE {FALSE}) :
        /\ authed' = ok
        /\ jar' = IF ok THEN jar ELSE jar \cup {ANON}
        /\ pc' = IF ok THEN "api" ELSE "login"
    /\ UNCHANGED <<call, args, data, discovered, matched, success, tickets, saved,
                   reported, outcome, runs, cookieStore, artifacts, goodCookies>>

StopAfterFailedLogin(logged_in) == IF logged_in THEN "api" ELSE "done"

\* lines 516-519: `await login(page)`, the value it returns is dropped
AfterLogin(logged_in) == "api"

\* lines 77-110 and 517-519: login(); its return value is not looked at
Login ==
    /\ pc = "login"
    /\ \E credentials \in BOOLEAN :
        /\ IF ~credentials
           THEN /\ reported' = Append(reported, [kind |-> "NoCredentials"])
                /\ UNCHANGED <<log, authed, jar>>
           ELSE /\ Logged([op |-> "login"])
                /\ \E ok \in BOOLEAN :
                    /\ authed' = ok
                    /\ jar' = IF ok THEN {c \in jar : c[1] # "sid"} \cup {SessionCookie(runs)}
                              ELSE jar
                /\ UNCHANGED reported
        /\ pc' = AfterLogin(credentials)
    /\ UNCHANGED <<call, args, data, discovered, matched, success, tickets, saved,
                   outcome, runs, cookieStore, artifacts, goodCookies>>

UnhandledFault == [kind |-> "fault", ret |-> None, exit |-> 1]

ChangeModeWithoutFilter(a) == a.change_status # None /\ a.status = None

\* line 522: if args.change_status
IsChangeMode(a) == a.change_status # None

\* lines 256-279 with get_transitions (117-162): discovery and matching
GetTransitions ==
    /\ pc = "api"
    /\ IsChangeMode(args)
    /\ \E status \in ApiStatuses(authed), body \in TransitionBodies :
        /\ Logged([op |-> "get_transitions", key |-> args.change_status[1],
                   authed |-> authed, status |-> status,
                   parsed |-> (status = 200 /\ body # None)])
        /\ IF status # 200
           THEN /\ reported' = Append(reported, [kind |-> "TransitionsHttp", status |-> status])
                /\ success' = Some(FALSE)
                /\ pc' = "save_change"
                /\ UNCHANGED <<discovered, matched, outcome>>
           ELSE IF body = None
           THEN /\ reported' = Append(reported, [kind |-> "TransitionsParse"])
                /\ success' = Some(FALSE)
                /\ pc' = "save_change"
                /\ UNCHANGED <<discovered, matched, outcome>>
           ELSE IF body[1].t # "obj"
           THEN \* data.get on a value that is no dict: AttributeError
                /\ outcome' = UnhandledFault
                /\ pc' = "done"
                /\ UNCHANGED <<discovered, matched, success, reported>>
           ELSE LET found == DictGet(body[1].v, "transitions", JList(<<>>)).v
                    next == MatchDiscovered(args.change_status[1], found, args.to_status[1])
                IN  /\ discovered' = Some(found)
                    /\ matched' = next.matched
                    /\ success' = next.success
                    /\ reported' = reported \o next.report
                    /\ pc' = IF next.matched = None THEN "save_change" ELSE "execute"
                    /\ UNCHANGED outcome
    /\ UNCHANGED <<call, args, jar, authed, data, tickets, saved, runs, cookieStore,
                   artifacts, goodCookies>>

\* str(result.get(k)) inside the f-string of line 233
GetText(result, k) ==
    IF k \notin DOMAIN result THEN "None"
    ELSE IF k = "status" THEN ToString(result[k]) ELSE result[k]

\* error_msg of line 233: result.get("error") or f"HTTP {status} {statusText}"
PostError(result) ==
    IF DictGet(result, "error", "") # "" THEN result.error
    ELSE "HTTP " \o GetText(result, "status") \o " " \o GetText(result, "statusText")

AnyResponseSucceeds(result) == "error" \notin DOMAIN result

\* line 230: if result.get("ok")
TransitionSucceeded(result) == DictGet(result, "ok", FALSE)

RetryFailedPost(ok) == IF ok THEN "save_change" ELSE "execute"

\* lines 282-287: change_ticket_status returns what execute_transition returned
AfterExecute(ok) == "save_change"

\* lines 282-287 with execute_transition (185-235): the state-changing request
ExecuteTransition ==
    /\ pc = "execute"
    /\ \E response \in PostResponses :
        LET result == EvaluateResult(response)
            ok == TransitionSucceeded(result)
        IN  /\ Logged([op |-> "post_transition", key |-> args.change_status[1],
                       id |-> matched[1].id, answer |-> response])
            /\ success' = Some(ok)
            /\ reported' = IF ok THEN reported
                           ELSE Append(reported, [kind |-> "ExecutionFailed",
                                                  error |-> PostError(result)])
            /\ pc' = AfterExecute(ok)
    /\ UNCHANGED <<call, args, jar, authed, data, discovered, matched, tickets, saved,
                   outcome, runs, cookieStore, artifacts, goodCookies>>

\* lines 525-530 and 553: the cookies are saved whatever change_ticket_status
\* returned; main returns 0 or 1, which asyncio.run hands back and nobody reads
SaveCookiesAfterChange ==
    /\ pc = "save_change"
    /\ cookieStore' = jar
    /\ goodCookies' = IF success[1] THEN jar ELSE goodCookies
    /\ Logged([op |-> "save_cookies"])
    /\ outcome' = [kind |-> IF success[1] THEN "ok" ELSE "failed",
                   ret |-> Some(IF success[1] THEN 0 ELSE 1), exit |-> 0]
    /\ pc' = "done"
    /\ UNCHANGED <<call, args, jar, authed, data, discovered, matched, success, tickets,
                   saved, reported, runs, artifacts>>

\* lines 310-357 and 533: the search request and the parse of its page
FetchTickets ==
    /\ pc = "api"
    /\ ~IsChangeMode(args)
    /\ \E status \in ApiStatuses(authed), body \in SearchBodies :
        /\ Logged([op |-> "search", query |-> build_jql_query(args.status),
                   authed |-> authed, status |-> status,
                   parsed |-> (status = 200 /\ body # None)])
        /\ IF status # 200
           THEN /\ reported' = Append(reported, [kind |-> "SearchHttp", status |-> status])
                /\ data' = None
           ELSE IF body = None
           THEN /\ reported' = Append(reported, [kind |-> "SearchParse"])
                /\ data' = None
           ELSE /\ data' = body
                /\ UNCHANGED reported
    /\ pc' = "process"
    /\ UNCHANGED <<call, args, jar, authed, discovered, matched, success, tickets, saved,
                   outcome, runs, cookieStore, artifacts, goodCookies>>

\* `"issues" in data` raises TypeError on a number
ContainsFaults(v) == v.t = "num"

\* `"issues" in data` on a dict (its keys) or a list (its elements)
HasIssues(v) ==
    CASE v.t = "obj" -> "issues" \in DOMAIN v.v
      [] v.t = "list" -> \E i \in 1..Len(v.v) : v.v[i] = JStr("issues")
      [] OTHER -> FALSE

\* [format_ticket(issue) for issue in data["issues"]]
FormatAll(issues) == [i \in 1..Len(issues) |-> format_ticket(issues[i])]

CookiesSavedAlways(has_issues, stored, captured) == captured

\* lines 535-538: save_cookies(context.cookies()) runs only in the branch of
\* `if data and "issues" in data`
CookiesAfterSearch(has_issues, stored, captured) ==
    IF has_issues THEN captured ELSE stored

\* lines 535-549: the cookies are saved first, then every issue is normalized;
\* without an "issues" entry the failure is printed and main returns None
ProcessData ==
    /\ pc = "process"
    /\ IF data = None \/ ~PyTruthy(data[1])
       THEN /\ reported' = Append(reported, [kind |-> "FetchFailed"])
            /\ outcome' = [kind |-> "failed", ret |-> None, exit |-> 0]
            /\ pc' = "done"
            /\ cookieStore' = CookiesAfterSearch(FALSE, cookieStore, jar)
            /\ UNCHANGED <<goodCookies, tickets, log>>
       ELSE IF ContainsFaults(data[1])
       THEN /\ outcome' = UnhandledFault
            /\ pc' = "done"
            /\ UNCHANGED <<cookieStore, goodCookies, tickets, log, reported>>
       ELSE IF ~HasIssues(data[1])
       THEN /\ reported' = Append(reported, [kind |-> "FetchFailed"])
            /\ outcome' = [kind |-> "failed", ret |-> None, exit |-> 0]
            /\ pc' = "done"
            /\ cookieStore' = CookiesAfterSearch(FALSE, cookieStore, jar)
            /\ UNCHANGED <<goodCookies, tickets, log>>
       ELSE LET formatted == FormatAll(data[1].v.issues.v)
            IN  /\ cookieStore' = CookiesAfterSearch(TRUE, cookieStore, jar)
                /\ goodCookies' = jar
                /\ Logged([op |-> "save_cookies"])
                /\ UNCHANGED reported
                /\ IF \E i \in 1..Len(formatted) : IsFault(formatted[i])
                   THEN /\ outcome' = UnhandledFault
                        /\ pc' = "done"
                        /\ UNCHANGED tickets
                   ELSE /\ tickets' = formatted
                        /\ pc' = "write"
                        /\ UNCHANGED outcome
    /\ UNCHANGED <<call, args, jar, authed, data, discovered, matched, success, saved,
                   runs, artifacts>>

\* lines 544-545 with save_ticket_description (403-435): one ticket is written
WriteArtifact ==
    /\ pc = "write"
    /\ tickets # <<>>
    /\ LET ticket == Head(tickets)
           filepath == save_ticket_description(ticket)
       IN  /\ artifacts' = (filepath :> TicketContent(ticket)) @@ artifacts
           /\ saved' = Append(saved, [ticket |-> ticket, path |-> filepath])
           /\ Logged([op |-> "write", path |-> filepath])
    /\ tickets' = Tail(tickets)
    /\ UNCHANGED <<call, pc, args, jar, authed, data, discovered, matched, success,
                   reported, outcome, runs, cookieStore, goodCookies>>

\* lines 549 and 553: the browser is closed and main returns None
Finish ==
    /\ pc = "write"
    /\ tickets = <<>>
    /\ outcome' = [kind |-> "ok", ret |-> None, exit |-> 0]
    /\ pc' = "done"
    /\ UNCHANGED <<call, args, jar, authed, log, data, discovered, matched, success,
                   tickets, saved, reported, runs, cookieStore, artifacts, goodCookies>>

Next ==
    \/ Start
    \/ RestoreCookies
    \/ Probe
    \/ Login
    \/ GetTransitions
    \/ ExecuteTransition
    \/ SaveCookiesAfterChange
    \/ FetchTickets
    \/ ProcessData
    \/ WriteArtifact
    \/ Finish

Spec == Init /\ [][Next]_vars

(***************************************************************************)
(* The helpers on their own: the inputs are drawn in the initial state and *)
(* the action applies the helper to them.                                  *)
(***************************************************************************)
MaxNameLen == 3
MaxTransitions == 3
MaxFragments == 2

\* ---- sanitize_folder_name ----
SanitizeAlphabet == {"a", "A", "1", "_", "-", " ", "!"}
SanitizeInputs == SeqsUpTo(SanitizeAlphabet, MaxNameLen) \cup {OPEN, IN_PROGRESS}

InitSanitize ==
    /\ call \in {[fn |-> "sanitize_folder_name", stage |-> "input", name |-> x] :
                    x \in SanitizeInputs}
    /\ MainInit

ApplySanitize ==
    /\ call.stage = "input"
    /\ call' = [fn |-> "sanitize_folder_name", stage |-> "applied", name |-> call.name,
                result |-> sanitize_folder_name(call.name)]
    /\ UNCHANGED mainVars

\* the result is sanitized once more
ReapplySanitize ==
    /\ call.stage = "applied"
    /\ call' = [fn |-> "sanitize_folder_name", stage |-> "reapplied", name |-> call.name,
                once |-> call.result, result |-> sanitize_folder_name(call.result)]
    /\ UNCHANGED mainVars

NextSanitize == ApplySanitize \/ ReapplySanitize

SpecSanitize == InitSanitize /\ [][NextSanitize]_vars

\* ---- build_jql_query ----
QueryAlphabet == {"O", "p", "n", " ", "'"}
QueryInputs ==
    {None} \cup {Some(x) : x \in SeqsUpTo(QueryAlphabet, MaxNameLen) \cup {OPEN, IN_PROGRESS}}

InitQuery ==
    /\ call \in {[fn |-> "build_jql_query", stage |-> "input", status |-> x] :
                    x \in QueryInputs}
    /\ MainInit

ApplyBuildQuery ==
    /\ call.stage = "input"
    /\ call' = [fn |-> "build_jql_query", stage |-> "applied", status |-> call.status,
                result |-> build_jql_query(call.status)]
    /\ UNCHANGED mainVars

NextQuery == ApplyBuildQuery

SpecQuery == InitQuery /\ [][NextQuery]_vars

\* ---- find_transition_by_status ----
DONE_UPPER == <<"D", "O", "N", "E">>
DONE_SPACE == <<"D", "o", "n", "e", " ">>
IN_REVIEW == <<"I", "n", " ", "R", "e", "v", "i", "e", "w">>
IN_REVIEW_LOWER == <<"i", "n", " ", "r", "e", "v", "i", "e", "w">>

FindDests ==
    {None, Some(<<>>), Some(DONE), Some(DONE_UPPER), Some(DONE_SPACE), Some(IN_REVIEW),
     Some(OPEN)}
\* the target comes from --to-status, which the argument check requires non-empty
FindTargets == {DONE_LOWER, DONE_UPPER, DONE_SPACE, IN_REVIEW_LOWER}

InitFind ==
    /\ call \in {[fn |-> "find_transition_by_status", stage |-> "input",
                  transitions |-> MkTransitions(d), target_status |-> t] :
                    d \in SeqsUpTo(FindDests, MaxTransitions), t \in FindTargets}
    /\ MainInit

ApplyFind ==
    /\ call.stage = "input"
    /\ call' = [fn |-> "find_transition_by_status", stage |-> "applied",
                transitions |-> call.transitions, target_status |-> call.target_status,
                result |-> find_transition_by_status(call.transitions, call.target_status)]
    /\ UNCHANGED mainVars

NextFind == ApplyFind

SpecFind == InitFind /\ [][NextFind]_vars

\* ---- format_ticket ----
Missing == [t |-> "missing"]

\* a dict of the entries that are present
DictOf(entries) ==
    [k \in {x \in DOMAIN entries : entries[x].t # "missing"} |-> entries[k]]

StatusParts == {Missing, Null, JObj(EmptyDict), JObj([name |-> JStr(OPEN)])}
PriorityParts == {Missing, Null, JObj([name |-> JStr("High")])}
PersonParts == {Missing, Null, JObj([displayName |-> JStr("Ann")])}
LabelsParts == {Missing, Null, JList(<<>>), JList(<<JStr("x"), JStr("y")>>)}
DescriptionParts == {Missing, Null, JStr(""), JStr("text")}

FormatIssues ==
    {[key |-> JStr("ABC-1"),
      fields |-> JObj(DictOf([summary |-> JStr("first"), created |-> JStr("2024-01-01"),
                              status |-> st, priority |-> pr, assignee |-> asg,
                              reporter |-> rep, labels |-> lb, description |-> ds]))] :
        st \in StatusParts, pr \in PriorityParts, asg \in PersonParts,
        rep \in PersonParts, lb \in LabelsParts, ds \in DescriptionParts}

InitFormat ==
    /\ call \in {[fn |-> "format_ticket", stage |-> "input", issue |-> i] :
                    i \in FormatIssues}
    /\ MainInit

ApplyFormat ==
    /\ call.stage = "input"
    /\ call' = [fn |-> "format_ticket", stage |-> "applied", issue |-> call.issue,
                result |-> format_ticket(call.issue)]
    /\ UNCHANGED mainVars

NextFormat == ApplyFormat

SpecFormat == InitFormat /\ [][NextFormat]_vars

\* ---- the extraction of the JSON text ----
Fragments ==
    {AMP, LT, GT, QUOT, <<"a">>, ENT_LT, ENT_AMP, ENT_QUOT}

RECURSIVE Concat(_)
Concat(parts) == IF parts = <<>> THEN <<>> ELSE parts[1] \o Concat(Tail(parts))

\* the documents: one JSON string made of at most MaxFragments fragments
Documents == {Concat(parts) : parts \in SeqsUpTo(Fragments, MaxFragments)}

\* how a browser serializes text when it renders it into a page
RECURSIVE EntityEncode(_)
EntityEncode(s) ==
    IF s = <<>> THEN <<>>
    ELSE (CASE s[1] = "&" -> ENT_AMP
            [] s[1] = "<" -> ENT_LT
            [] s[1] = ">" -> ENT_GT
            [] s[1] = "\"" -> ENT_QUOT
            [] OTHER -> <<s[1]>>) \o EntityEncode(Tail(s))

HTML_OPEN == <<"<", "h", "t", "m", "l", ">">>
HTML_CLOSE == <<"<", "/", "h", "t", "m", "l", ">">>
DIV_OPEN == <<"<", "d", "i", "v", ">">>
DIV_CLOSE == <<"<", "/", "d", "i", "v", ">">>

\* page.content() for a response whose text is `text`
Render(wrap, text) ==
    CASE wrap = "pre" ->
            HTML_OPEN \o BODY_OPEN \o GT \o PRE_OPEN \o GT \o EntityEncode(text)
                \o PRE_CLOSE \o BODY_CLOSE \o HTML_CLOSE
      [] wrap = "body" ->
            HTML_OPEN \o BODY_OPEN \o GT \o DIV_OPEN \o EntityEncode(text)
                \o DIV_CLOSE \o BODY_CLOSE \o HTML_CLOSE
      [] wrap = "pre_attr" ->
            HTML_OPEN \o BODY_OPEN \o GT \o <<"x">> \o PRE_OPEN \o <<" ", "w">> \o GT
                \o EntityEncode(text) \o PRE_CLOSE \o BODY_CLOSE \o HTML_CLOSE
      [] wrap = "unclosed_pre" ->
            HTML_OPEN \o BODY_OPEN \o GT \o <<"\n">> \o PRE_OPEN \o GT
                \o EntityEncode(text) \o BODY_CLOSE \o HTML_CLOSE
      [] wrap = "raw" -> EntityEncode(text)

Wraps == {"pre", "pre_attr", "body", "unclosed_pre", "raw"}

InitExtract ==
    /\ call \in {[fn |-> "extract", stage |-> "input", document |-> d, wrap |-> w] :
                    d \in Documents, w \in Wraps}
    /\ MainInit

\* the browser renders the response
RenderPage ==
    /\ call.stage = "input"
    /\ call' = [fn |-> "extract", stage |-> "rendered", document |-> call.document,
                wrap |-> call.wrap,
                content |-> Render(call.wrap, json_dumps(call.document))]
    /\ UNCHANGED mainVars

\* lines 333-357 of fetch_tickets_via_api
ExtractInFetch ==
    /\ call.stage = "rendered"
    /\ call' = [fn |-> "extract", stage |-> "extracted", by |-> "fetch_tickets_via_api",
                document |-> call.document, wrap |-> call.wrap, content |-> call.content,
                json_text |-> fetch_json_text(call.content),
                result |-> json_loads(fetch_json_text(call.content))]
    /\ UNCHANGED mainVars

\* lines 141-162 of get_transitions
ExtractInGetTransitions ==
    /\ call.stage = "rendered"
    /\ call' = [fn |-> "extract", stage |-> "extracted", by |-> "get_transitions",
                document |-> call.document, wrap |-> call.wrap, content |-> call.content,
                json_text |-> transitions_json_text(call.content),
                result |-> json_loads(transitions_json_text(call.content))]
    /\ UNCHANGED mainVars

NextExtract == RenderPage \/ ExtractInFetch \/ ExtractInGetTransitions

SpecExtract == InitExtract /\ [][NextExtract]_vars

(***************************************************************************)
(* Properties                                                              *)
(***************************************************************************)
NoPostIssued == \A i \in 1..Len(log) : log[i].op # "post_transition"

RunFailed == pc = "done" => outcome.kind = "failed"

\* equality of two strings compared case-insensitively
CaseInsensitiveEqual(a, b) ==
    Len(a) = Len(b) /\ \A k \in 1..Len(a) : LowerChar(a[k]) = LowerChar(b[k])

HasDestination(t) == "to" \in DOMAIN t /\ "name" \in DOMAIN t.to

LeadsTo(t, target) == HasDestination(t) /\ CaseInsensitiveEqual(t.to.name, target)

\* an optional part of a raw issue record is absent: no key, or null
IsAbsent(fields, part) == part \notin DOMAIN fields \/ fields[part] = Null

\* C1: when transition discovery succeeds with an empty transition list,
\* change_ticket_status reports failure (NoTransitionsAvailable) and no
\* state-changing POST request is issued in that invocation.
C1_EmptyDiscoveryFailsWithoutPost ==
    (args.mode = "change" /\ discovered = Some(<<>>)) =>
        /\ success = Some(FALSE)
        /\ matched = None
        /\ \E i \in 1..Len(reported) :
              reported[i] = [kind |-> "NoTransitionsAvailable", key |-> args.change_status[1]]
        /\ \A i \in 1..Len(reported) : reported[i].kind # "NoMatchingTransition"
        /\ NoPostIssued
        /\ pc \in {"save_change", "done"}
        /\ RunFailed

C1_Witness ==
    /\ pc = "done"
    /\ args.mode = "change"
    /\ discovered = Some(<<>>)
    /\ outcome.kind = "failed"
    /\ NoPostIssued

\* C2: when the non-empty discovered list holds no transition whose
\* destination equals the target case-insensitively, change_ticket_status
\* reports failure (NoMatchingTransition) naming the requested target and
\* listing the destination names of all discovered transitions in API order,
\* and issues no state-changing POST request.
C2_NoMatchListsDestinations ==
    (/\ args.mode = "change"
     /\ discovered # None
     /\ discovered[1] # <<>>
     /\ \A i \in 1..Len(discovered[1]) : ~LeadsTo(discovered[1][i], args.to_status[1])) =>
        /\ success = Some(FALSE)
        /\ matched = None
        /\ \E i \in 1..Len(reported) :
              /\ reported[i].kind = "NoMatchingTransition"
              /\ reported[i].target = args.to_status[1]
              /\ reported[i].available =
                    Join(", ", [k \in 1..Len(discovered[1]) |->
                                    Str(discovered[1][k].to.name)])
              /\ (discovered[1] = MkTransitions(<<Some(OPEN), Some(DONE)>>)
                    => reported[i].available = "Open, Done")
        /\ NoPostIssued
        /\ RunFailed

C2_Witness ==
    /\ pc = "done"
    /\ discovered = Some(MkTransitions(<<Some(OPEN), Some(DONE)>>))
    /\ args.to_status = Some(IN_PROGRESS)
    /\ \E i \in 1..Len(reported) :
          reported[i].kind = "NoMatchingTransition" /\ reported[i].available = "Open, Done"
    /\ NoPostIssued

\* C3: after any sequence of runs the cookie store holds exactly the cookie
\* set captured by the most recent run whose authenticated interaction
\* succeeded; a run whose API operation failed does not overwrite the store.
C3_StoreIsLastSuccessfulCapture == pc = "done" => cookieStore = goodCookies

\* C4: every failure of an operation ends the run with a reported outcome
\* and a non-zero exit signal; no run ends with an unhandled fault and no
\* failed run ends with exit signal zero.
C4_FailuresReportedWithNonZeroExit ==
    pc = "done" =>
        /\ outcome.kind # "fault"
        /\ (outcome.kind = "failed" => reported # <<>> /\ outcome.exit # 0)

C6_PreRoundTrip ==
    (call.fn = "extract" /\ call.stage = "extracted" /\ call.wrap = "pre") =>
        call.result = Some(call.document)

\* C7: for every raw issue record in which any subset of the optional parts
\* is absent (missing key or null), format_ticket never faults and returns a
\* ticket in which every field is a string and each absent part is replaced
\* by its sentinel.
C7_AbsentPartsGetSentinels ==
    (call.fn = "format_ticket" /\ call.stage = "applied") =>
        LET fields == call.issue.fields.v
            ticket == call.result
        IN  /\ ~IsFault(ticket)
            /\ \A f \in DOMAIN ticket : ticket[f].t = "str"
            /\ (IsAbsent(fields, "priority") => ticket.priority.v = "N/A")
            /\ (IsAbsent(fields, "assignee") => ticket.assignee.v = "Unassigned")
            /\ (IsAbsent(fields, "reporter") => ticket.reporter.v = "N/A")
            /\ (IsAbsent(fields, "labels") => ticket.labels.v = "None")
            /\ (IsAbsent(fields, "description")
                  => ticket.description.v = "No description provided")

\* C8: sanitize_folder_name is idempotent: sanitizing a sanitized name gives
\* the same name, for all inputs.
C8_SanitizeIdempotent ==
    (call.fn = "sanitize_folder_name" /\ call.stage = "reapplied") =>
        call.result = call.once

\* C9: in a fetch run, the artifact of an issue with a key but no status
\* object and no description is saved at <output-root>/unknown/<key>.txt and
\* its Description section reads "No description provided".
C9_NoStatusGoesToLowercaseUnknown ==
    \A i \in 1..Len(saved) :
        LET issue == data[1].v.issues.v[i]
            fields == issue.fields.v
        IN  (IsAbsent(fields, "status") /\ IsAbsent(fields, "description")) =>
                /\ saved[i].path = "output/unknown/" \o issue.key.v \o ".txt"
                /\ saved[i].path \in DOMAIN artifacts
                /\ artifacts[saved[i].path][12] = "Description:"
                /\ artifacts[saved[i].path][13] = "No description provided"

\* C10: build_jql_query starts with "assignee = currentUser()", appends
\* " AND status = '<status>'" exactly when a status filter is supplied (a
\* non-empty one), and ends with " ORDER BY updated DESC", never joined with
\* AND.
C10_QueryShape ==
    (call.fn = "build_jql_query" /\ call.stage = "applied") =>
        /\ call.result =
              "assignee = currentUser()"
                  \o (IF call.status # None /\ Len(call.status[1]) > 0
                      THEN " AND status = '" \o Str(call.status[1]) \o "'"
                      ELSE "")
                  \o " ORDER BY updated DESC"
        /\ (call.status = None
              => call.result = "assignee = currentUser() ORDER BY updated DESC")
        /\ (call.status = Some(OPEN)
              => call.result =
                    "assignee = currentUser() AND status = 'Open' ORDER BY updated DESC")

C10_Witness ==
    /\ call.fn = "build_jql_query"
    /\ call.stage = "applied"
    /\ call.status = Some(OPEN)
    /\ call.result = "assignee = currentUser() AND status = 'Open' ORDER BY updated DESC"

\* positions of the log that record the external step op
Issued(op) == {i \in 1..Len(log) : log[i].op = op}

\* the run has issued its state-changing request and has its answer
PostAnswered == Issued("post_transition") # {} /\ success # None

ExecutionFailures == {i \in 1..Len(reported) : reported[i].kind = "ExecutionFailed"}

\* C11: once a matching transition is found, the change succeeds exactly when
\* the state-changing request is answered with a 2xx status; any other status
\* and any network-level exception make it fail, the failure carrying the
\* status and its text or the exception message; the request carries the id
\* of the matched transition.
C11_PostDecidesSuccess ==
    PostAnswered =>
        \A i \in Issued("post_transition") :
            LET answer == log[i].answer
                http == "status" \in DOMAIN answer
                is2xx == http /\ answer.status \in 200..299
                carried == IF http
                           THEN "HTTP " \o ToString(answer.status) \o " " \o answer.statusText
                           ELSE answer.exception
            IN  /\ matched # None
                /\ log[i].id = matched[1].id
                /\ LeadsTo(matched[1], args.to_status[1])
                /\ success = Some(is2xx)
                /\ is2xx => ExecutionFailures = {}
                /\ ~is2xx => \E r \in ExecutionFailures : reported[r].error = carried
                /\ pc = "done" => outcome.kind = (IF is2xx THEN "ok" ELSE "failed")

C11_Witness ==
    /\ pc = "done"
    /\ PostAnswered
    /\ success = Some(FALSE)
    /\ \E i \in Issued("post_transition") :
        "status" \in DOMAIN log[i].answer /\ log[i].answer.status = 400

\* C12: no external call is retried: a run issues the search request at most
\* once, the transitions discovery request at most once and the
\* state-changing request at most once, also when the call failed.
C12_NoRetry ==
    /\ Cardinality(Issued("search")) <= 1
    /\ Cardinality(Issued("get_transitions")) <= 1
    /\ Cardinality(Issued("post_transition")) <= 1
    /\ \A op \in {"search", "get_transitions"} :
          \A i \in Issued(op) :
              ~log[i].parsed =>
                  /\ \A j \in 1..Len(log) : j > i => log[j].op \notin {op, "post_transition"}
                  /\ pc = "done" => outcome.kind = "failed"
    /\ \A i \in Issued("post_transition") :
          (success = Some(FALSE)) => \A j \in 1..Len(log) : j > i => log[j].op = "save_cookies"

C12_Witness ==
    /\ pc = "done"
    /\ PostAnswered
    /\ success = Some(FALSE)
    /\ Cardinality(Issued("post_transition")) = 1
    /\ Cardinality(Issued("get_transitions")) = 1
NoCredentialsReported == \E i \in 1..Len(reported) : reported[i].kind = "NoCredentials"

ApiCalls == Issued("search") \cup Issued("get_transitions")

\* C13: when the probe finds the session unauthenticated and no credentials
\* are available, the authentication flow ends with a reported failure, raises
\* nothing and does not drive the login form; the run goes on to issue its API
\* call (search or transitions discovery) unauthenticated, directly after the
\* one probe: the location is not verified again before the call.
C13_NoCredentialsStillCallsApi ==
    NoCredentialsReported =>
        /\ Issued("login") = {}
        /\ Cardinality(Issued("probe")) = 1
        /\ ~authed
        /\ outcome.kind # "fault"
        /\ pc \in {"api", "process", "save_change", "done"}
        /\ pc = "api" => ApiCalls = {} /\ ENABLED (GetTransitions \/ FetchTickets)
        /\ pc # "api" =>
              \E i \in ApiCalls : /\ ~log[i].authed
                                  /\ i > 1
                                  /\ log[i - 1].op = "probe"

C13_Witness ==
    /\ NoCredentialsReported
    /\ pc = "done"
    /\ \E i \in Issued("search") : ~log[i].authed /\ log[i].status = 401
\* the raw issue records of the search result the run holds
SearchedIssues ==
    IF data # None /\ data[1].t = "obj" /\ "issues" \in DOMAIN data[1].v
    THEN data[1].v.issues.v
    ELSE <<>>

\* C14: in a fetch run whose search result holds several raw issue records,
\* each record is normalized on its own: a malformed record (null fields, null
\* labels) does not abort the batch, and an artifact is written for every
\* other record.
C14_MalformedRecordDoesNotAbortBatch ==
    (pc = "done" /\ Len(SearchedIssues) >= 2) =>
        /\ outcome.kind # "fault"
        /\ \A i \in 1..Len(SearchedIssues) :
              ~IsFault(format_ticket(SearchedIssues[i])) =>
                  \E k \in 1..Len(saved) :
                      saved[k].ticket = format_ticket(SearchedIssues[i])
\* the place of a logged step in the order the specification gives: cookies last
ClaimedRank(e) ==
    CASE e.op = "restore" -> 1
      [] e.op = "probe" -> 2
      [] e.op = "login" -> 3
      [] e.op \in {"search", "get_transitions"} -> 4
      [] e.op \in {"write", "post_transition"} -> 5
      [] e.op = "save_cookies" -> 6

\* the same order, with the artifact writes after the cookies are persisted
WritesLastRank(e) == IF e.op = "write" THEN 7 ELSE ClaimedRank(e)

\* the logged steps follow the order of Rank; only artifact writes repeat
InOrder(Rank(_)) ==
    \A i, j \in 1..Len(log) :
        i < j => /\ Rank(log[i]) <= Rank(log[j])
                 /\ Rank(log[i]) = Rank(log[j]) => log[i].op = "write"

RestoreSkippedOnLogin == (Len(log) > 0 /\ args.login) => Issued("restore") = {}

\* C15 (as stated): the steps of a run occur strictly in order: restore of the
\* cookies (skipped on forced re-login), probe and optional authentication,
\* one search followed by the per-ticket artifact writes (or one transition
\* flow), and the cookie store persisted last, after the writes or the flow.
C15_CookiesPersistedLast ==
    /\ RestoreSkippedOnLogin
    /\ InOrder(ClaimedRank)
    /\ \A i \in Issued("save_cookies") : i = Len(log)

\* C15 (amended): the steps of a run occur strictly in order: restore of the
\* cookies (skipped on forced re-login), probe and optional authentication,
\* then either one transition flow after which the cookie store is persisted
\* last, or one search directly followed by the persisting of the cookie
\* store and only then by the per-ticket artifact writes.
C15_CookiesPersistedBeforeWrites ==
    /\ RestoreSkippedOnLogin
    /\ InOrder(WritesLastRank)
    /\ \A i \in Issued("save_cookies") :
          IF IsChangeMode(args)
          THEN i = Len(log)
          ELSE /\ i > 1
               /\ log[i - 1].op = "search"
               /\ \A j \in 1..Len(log) : j > i => log[j].op = "write"

C15_Witness ==
    /\ pc = "done"
    /\ Issued("restore") # {}
    /\ Cardinality(Issued("write")) = 2
    /\ \E i \in Issued("save_cookies") : \E j \in Issued("write") : i < j
\* C16: the two modes are never combined: a change-status run issues no
\* search request and writes no artifact, whatever its outcome, and a fetch
\* run issues neither a transitions discovery request nor a state-changing
\* request.
C16_ModesNeverCombined ==
    args # NoArgs =>
        IF args.change_status # None
        THEN /\ Issued("search") = {}
             /\ Issued("write") = {}
             /\ saved = <<>>
             /\ tickets = <<>>
        ELSE /\ Issued("get_transitions") = {}
             /\ Issued("post_transition") = {}
             /\ discovered = None
             /\ matched = None

C16_Witness ==
    /\ pc = "done"
    /\ args.change_status # None
    /\ args.status # None
    /\ Issued("post_transition") # {}
    /\ success = Some(TRUE)
    /\ Issued("search") = {}
Extracted == call.fn = "extract" /\ call.stage = "extracted"

\* the response text as the browser serialized it into the page
Serialized == EntityEncode(json_dumps(call.document))

\* C17 (as stated): whichever of the three branches isolates the candidate
\* text (<pre> element, <body> with its tags stripped, or the whole content
\* verbatim), the four HTML entities are decoded before the text is parsed as
\* JSON; the <pre> branch takes precedence over the <body> branch.
C17_EveryBranchDecodes ==
    Extracted => call.json_text = DecodeEntities(Serialized)

\* C17 (amended): the <pre> branch takes precedence over the <body> branch,
\* and in both of them the four HTML entities are decoded before the text is
\* parsed as JSON; when neither element is present the whole content is
\* parsed verbatim, entities included.
C17_OnlyElementBranchesDecode ==
    Extracted =>
        CASE call.wrap \in {"pre", "pre_attr"} ->
                /\ TagGroup(call.content, BODY_OPEN, BODY_CLOSE) # None
                /\ call.json_text = DecodeEntities(Serialized)
          [] call.wrap \in {"body", "unclosed_pre"} ->
                call.json_text = DecodeEntities(Serialized)
          [] call.wrap = "raw" ->
                /\ call.json_text = call.content
                /\ call.json_text = Serialized
                /\ call.json_text # DecodeEntities(Serialized)
                /\ call.result = None

C17_Witness ==
    /\ Extracted
    /\ call.wrap = "raw"
    /\ call.document = LT
    /\ call.json_text = ENT_QUOT \o ENT_LT \o ENT_QUOT

\* C18: the JSON extraction of the search endpoint and that of the
\* transitions endpoint are the same routine: on every rendered page content
\* both isolate the same candidate text and decode it the same way, and either
\* both parse it to the same JSON value or both report a parse failure.
C18_SameExtraction ==
    Extracted =>
        /\ call.json_text = fetch_json_text(call.content)
        /\ call.json_text = transitions_json_text(call.content)
        /\ call.result = json_loads(fetch_json_text(call.content))
        /\ call.result = json_loads(transitions_json_text(call.content))

C18_Witness ==
    /\ Extracted
    /\ call.by = "get_transitions"
    /\ call.wrap = "body"
    /\ call.document = AMP \o <<"a">>
    /\ call.result = json_loads(fetch_json_text(call.content))
    /\ call.result = Some(call.document)
\* a folder name as the specification describes it: not empty, made of
\* lowercase word characters and hyphens, underscores neither first, last nor
\* doubled
IsFolderName(r) ==
    /\ r # <<>>
    /\ \A k \in 1..Len(r) : r[k] \in LowerCase \cup Digits \cup {"_", "-"}
    /\ r[1] # "_"
    /\ r[Len(r)] # "_"
    /\ \A k \in 1..(Len(r) - 1) : ~(r[k] = "_" /\ r[k + 1] = "_")

\* C19: for every status string, also one made of punctuation only,
\* sanitize_folder_name returns a non-empty lowercase folder name of word
\* characters and hyphens without leading, trailing or consecutive
\* underscores, so that save_ticket_description writes at
\* <output-root>/<sanitized-status>/<key>.txt and never in the output root.
C19_ArtifactNeverInOutputRoot ==
    (call.fn = "sanitize_folder_name" /\ call.stage = "applied") =>
        /\ IsFolderName(call.result)
        /\ \A key \in IssueKeys :
              TicketPath(call.result, key) =
                  OUTPUT_DIR \o "/" \o Str(call.result) \o "/" \o key \o ".txt"
\* C20: a state-changing request is issued only after a transitions discovery
\* request of the same run was answered 200 with parseable JSON, and the id it
\* carries is the id of a transition of that freshly discovered list whose
\* destination status name equals the target case-insensitively; no such
\* request is issued when the discovery failed (other status, parse failure).
C20_PostOnlyAfterFreshDiscovery ==
    /\ \A i \in Issued("post_transition") :
          /\ \E j \in Issued("get_transitions") :
                /\ j < i
                /\ log[j].status = 200
                /\ log[j].parsed
                /\ log[j].key = log[i].key
          /\ discovered # None
          /\ \E k \in 1..Len(discovered[1]) :
                /\ discovered[1][k].id = log[i].id
                /\ LeadsTo(discovered[1][k], args.to_status[1])
    /\ (\E j \in Issued("get_transitions") : log[j].status # 200 \/ ~log[j].parsed)
          => NoPostIssued /\ discovered = None

C20_Witness ==
    /\ Issued("post_transition") # {}
    /\ discovered # None
    /\ Len(discovered[1]) = 2
    /\ ~LeadsTo(discovered[1][1], args.to_status[1])
    /\ \A i \in Issued("post_transition") : log[i].id = discovered[1][2].id
\* the search of the run yielded a payload with an "issues" entry
SearchYieldedIssues ==
    /\ \E i \in Issued("search") : log[i].status = 200 /\ log[i].parsed
    /\ data # None
    /\ PyTruthy(data[1])
    /\ ~ContainsFaults(data[1])
    /\ HasIssues(data[1])

\* C21: a fetch run whose search fails (response other than 200, payload not
\* parseable as JSON, or parsed payload without an "issues" entry) writes no
\* artifact and leaves the cookie store and every artifact written before
\* unchanged: in a fetch run no step changes either of them unless the search
\* of that run yielded an issue list.
C21_FailedSearchChangesNothing ==
    [][(args' # NoArgs /\ args'.change_status = None /\ ~SearchYieldedIssues')
          => /\ cookieStore' = cookieStore
             /\ artifacts' = artifacts
             /\ saved' = <<>>
             /\ \A i \in 1..Len(log') : log'[i].op \notin {"write", "save_cookies"}]_vars

C21_Witness ==
    /\ pc = "done"
    /\ args.change_status = None
    /\ \E i \in Issued("search") : log[i].status = 500
    /\ ~SearchYieldedIssues
    /\ outcome.kind = "failed"
    /\ DOMAIN artifacts # {}
    /\ HasSession(cookieStore)
    /\ cookieStore # jar
    /\ saved = <<>>
====
